---- MODULE Spec2Model ----
(***************************************************************************)
(* The game-session engine of ritsu: GameHandler (src/src/handlers/        *)
(* GameHandler.ts) for one guild, with the room and theme handling of the  *)
(* earlier Game class (src/unnamed/part_001).                              *)
(*                                                                         *)
(* One GameHandler runs at a time for the guild.  Its asynchronous code is *)
(* cut at the awaits that other handlers can interleave with: chat events  *)
(* (answers, the stop and hint commands), the collectors' timers, and the  *)
(* fire-and-forget bumpScore tasks of a round resolution.                  *)
(***************************************************************************)
EXTENDS Integers, FiniteSets, Sequences, TLC

\* ---------------------------------------------------------------- bounds
MaxRounds == 2
MaxCurrentRound == 3
MaxScore == 3
MaxRetries == 2
MaxInputScore == 7
MaxInputRounds == 10
MaxBumps == 3

\* ---------------------------------------------------------------- values
Users == {"u1", "u2"}
ThisGuild == "g1"
OtherGuild == "g2"
Guilds == {ThisGuild, OtherGuild}
Links == {"t1", "t2"}

NoRoom == [currentRound |-> 0, answerers |-> {}, exists |-> FALSE]
NoEntry == [guildId |-> "none", score |-> 0]
NoTheme == "null"
NoWinner == "null"
NegInfinity == -1000

VARIABLES
  pc,             \* position of the running GameHandler, "idle" when none runs
  rounds,         \* gameOptions.rounds
  isSingleplayer, \* isSinglePlayer(voiceChannel) of the current round
  rolling,        \* persisted guild.rolling
  room,           \* the Rooms document of the guild
  leaderboard,    \* RoomLeaderboard documents, keyed by _id (the user id)
  themesCache,    \* keys of GameHandler.themesCache
  theme,          \* the theme the source returned last: the round's, once accepted
  answerOpen,     \* the round's answerCollector has not ended
  cmdOpen,        \* the round's gameCommandCollector has not ended
  staleCmd,       \* a gameCommandCollector of an earlier, resolved round still listens
  stopReason,     \* the reason the answerCollector ended with
  pendingBump,    \* the users whose started bumpScore task has not run yet
  matchWinner,    \* what getMatchWinner returned last
  err,            \* an error was thrown by the last operation
  retries,        \* chooseTheme calls of the running getTheme (saturating)
  highestScore,   \* the local highestScore of the running getMatchWinner
  hist,           \* what the running session has done so far (observation only)
  snap,           \* inputs and intermediate results kept by the function harnesses
  calls           \* applications made by the function harnesses

vars == <<pc, rounds, isSingleplayer, rolling, room, leaderboard, themesCache, theme,
          answerOpen, cmdOpen, staleCmd, stopReason, pendingBump, matchWinner, err,
          retries, highestScore, hist, snap, calls>>

sessionVars == <<rounds, isSingleplayer, rolling, room, leaderboard, themesCache, theme,
                 answerOpen, cmdOpen, staleCmd, stopReason, pendingBump, matchWinner>>

harnessVars == <<snap, calls>>

\* What a session has done: the observations the properties are stated over.
NoHist ==
  [ revealed |-> FALSE,      \* a reveal / answerers message was sent
    winnerRead |-> FALSE,    \* getMatchWinner was called
    finishes |-> 0,          \* handleFinish calls
    clears |-> 0,            \* clearData calls
    stopNoop |-> FALSE,      \* a stop command found the answerCollector ended
    continued |-> FALSE,     \* the current round was started by an 'end' handler
    resolvedRound |-> 0,     \* currentRound of the last round resolved by timeout
    returned |-> {},         \* the links getTheme returned
    dupTheme |-> FALSE,      \* getTheme returned a link it had returned before
    inVoice |-> TRUE,        \* the last startNewRound found the requester in voice
    roomBefore |-> NoRoom,   \* the room as the startNewRound under way found it
    rollingBefore |-> FALSE, \* guild.rolling as the last startNewRound found it
    played |-> 0,            \* rounds resolved by timeout
    staleRead |-> FALSE,     \* getMatchWinner read before a started bumpScore ran
    lateWrite |-> FALSE,     \* a bumpScore saved a score after clearData's deletes
    outcome |-> "none" ]     \* how the session ended: "forced", "exhausted", or the
                             \* failed round start: "noVoice", "badChannel",
                             \* "themeFailed", "streamFailed"

Min(a, b) == IF a < b THEN a ELSE b

SetMax(S) == CHOOSE x \in S : \A y \in S : y <= x

\* ------------------------------------------------------- pure functions

\* RoomLeaderboard.find({ guildId }): the ids of the guild's entries.
GuildBoards(lb, g) == {u \in Users : lb[u] # NoEntry /\ lb[u].guildId = g}

\* leaderboards.map((user) => user.score)
Scores(lb, g) == {lb[u].score : u \in GuildBoards(lb, g)}

\* Math.max(...scores): -Infinity for no scores.
HighestScore(scores) == IF scores = {} THEN NegInfinity ELSE SetMax(scores)

RoundedHalfRounds_Floor(r) == r \div 2

\* Math.round(rounds / 2): the nearest integer, a half rounded up.
RoundedHalfRounds(r) == (r + 1) \div 2

\* highestScore - 1, where -Infinity - 1 is -Infinity.
WonRounds(h) == IF h = NegInfinity THEN NegInfinity ELSE h - 1

\* The single-player early return of getMatchWinner.
NobodyWon(single, r, h) == single /\ RoundedHalfRounds(r) > WonRounds(h)

FindOneByScore_AnyGuild(lb, g, s) == {u \in Users : lb[u] # NoEntry /\ lb[u].score = s}

\* RoomLeaderboard.findOne({ guildId, score }): the entries it may return.
FindOneByScore(lb, g, s) == {u \in GuildBoards(lb, g) : lb[u].score = s}

BumpedScore_Twice(s) == s + 2

\* leaderboard.score + 1
BumpedScore(s) == s + 1

\* bumpScore: RoomLeaderboard.findById(userId), and only if it is found, score + 1.
BumpScore(lb, u) ==
  IF lb[u] # NoEntry THEN [lb EXCEPT ![u].score = BumpedScore(@)] ELSE lb

\* The ledger upsert of an answer event (the specification's 4.2): an entry is
\* created with score 1, else incremented.
LedgerBump(lb, g, u) ==
  IF lb[u] = NoEntry THEN [lb EXCEPT ![u] = [guildId |-> g, score |-> 1]]
  ELSE [lb EXCEPT ![u].score = @ + 1]

\* createRoom
CreateRoom == [currentRound |-> 1, answerers |-> {}, exists |-> TRUE]

HandleRoom_AlwaysCreate(r) == CreateRoom

HandleRoom_NoAdvance(r) == IF ~r.exists THEN CreateRoom ELSE r

\* handleRoom: a new room, or the old one with the round advanced.
HandleRoom(r) ==
  IF ~r.exists THEN CreateRoom
  ELSE [r EXCEPT !.currentRound = @ + 1, !.answerers = {}]

Rejected_NullOnly(candidate, cache) == candidate = NoTheme

\* chooseTheme: no or one the cache holds, is chosen again.
Rejected(candidate, cache) == candidate = NoTheme \/ candidate \in cache

IsLastRound_Strict(r, n) == r.currentRound > n

\* room.currentRound >= this.gameOptions.rounds
IsLastRound(r, n) == r.currentRound >= n

\* The reason handleStopCommand ends the answer collector with: the forced end of
\* the specification's 4.3, told apart from the timeout.
ForcedReason == "forceFinished"

IsForceFinished_Never(reason) == FALSE

\* stopReason === 'forceFinished'
IsForceFinished(reason) == reason = "forceFinished"

RollingOnRoundStart_Unset == FALSE

\* guild.rolling = true
RollingOnRoundStart == TRUE

ClearedRolling_Toggle(r) == ~r

\* guild.rolling = false
ClearedRolling(r) == FALSE

\* this.themesCache.del(this.themesCache.keys())
ClearedCache(cache) == cache \ cache

\* leaderboards.map(async (board) => { await board.deleteOne() })
ClearedBoards(lb, g) == [u \in Users |-> IF u \in GuildBoards(lb, g) THEN NoEntry ELSE lb[u]]

AfterForcedClear_FallThrough == "reveal"

\* The return that ends the forced branch of the 'end' handler.
AfterForcedClear == "idle"

\* --------------------------------------------------------------- session

Init ==
  /\ pc = "idle"
  /\ rounds = 1
  /\ isSingleplayer = FALSE
  /\ rolling = FALSE
  /\ room = NoRoom
  /\ leaderboard = [u \in Users |-> NoEntry]
  /\ themesCache = {}
  /\ theme = NoTheme
  /\ answerOpen = FALSE
  /\ cmdOpen = FALSE
  /\ staleCmd = FALSE
  /\ stopReason = "none"
  /\ pendingBump = {}
  /\ matchWinner = NoWinner
  /\ err = FALSE
  /\ retries = 0
  /\ highestScore = 0
  /\ hist = NoHist
  /\ snap = 0
  /\ calls = 0

\* The exit of startNewRound without a round: by a message, or by a thrown error
\* that initGame or the 'end' handler hands to handleError.
Abort(h, thrown, cause) ==
  /\ pc' = "idle"
  /\ err' = thrown
  /\ hist' = [h EXCEPT !.outcome = cause]

\* new GameHandler(message, client, gameOptions, t).initGame()
InitGame ==
  /\ pc = "idle"
  /\ \E n \in 1..MaxRounds : rounds' = n
  /\ themesCache' = {}
  /\ theme' = NoTheme
  /\ matchWinner' = NoWinner
  /\ err' = FALSE
  /\ retries' = 0
  /\ highestScore' = 0
  /\ hist' = NoHist
  /\ stopReason' = "none"
  /\ pc' = "checkVoice"
  /\ UNCHANGED <<isSingleplayer, rolling, room, leaderboard, answerOpen, cmdOpen,
                 staleCmd, pendingBump, harnessVars>>

HasNoVoiceChannel_Never(inVoice) == FALSE

\* !voiceChannelID
HasNoVoiceChannel(inVoice) == ~inVoice

\* startNewRound up to isSinglePlayer: the requester's voice channel.  Without one
\* the round start ends with a message; a channel of another type than voice
\* makes isSinglePlayer throw.
CheckVoice ==
  /\ pc = "checkVoice"
  /\ \E inVoice \in BOOLEAN, validType \in BOOLEAN, single \in BOOLEAN :
       LET seen == [hist EXCEPT !.inVoice = inVoice, !.roomBefore = room,
                                !.rollingBefore = rolling]
       IN  IF HasNoVoiceChannel(inVoice)
           THEN Abort(seen, FALSE, "noVoice") /\ UNCHANGED isSingleplayer
           ELSE IF ~validType
           THEN Abort(seen, TRUE, "badChannel") /\ UNCHANGED isSingleplayer
           ELSE /\ isSingleplayer' = single
                /\ pc' = "handleRoom"
                /\ hist' = seen
                /\ UNCHANGED err
  /\ UNCHANGED <<rounds, rolling, room, leaderboard, themesCache, theme, answerOpen,
                 cmdOpen, staleCmd, stopReason, pendingBump, matchWinner, retries,
                 highestScore, harnessVars>>

\* const room = await roomHandler.handleRoom()
HandleRoomStep ==
  /\ pc = "handleRoom"
  /\ room.currentRound < MaxCurrentRound
  /\ room' = HandleRoom(room)
  /\ retries' = 0
  /\ pc' = "getTheme"
  /\ UNCHANGED <<rounds, isSingleplayer, rolling, leaderboard, themesCache, theme,
                 answerOpen, cmdOpen, staleCmd, stopReason, pendingBump, matchWinner, err,
                 highestScore, hist, harnessVars>>

\* One chooseTheme call of getTheme: the source's candidate is chosen again when it
\* is rejected, and otherwise cached and returned.
ChooseTheme ==
  /\ pc = "getTheme"
  /\ \E candidate \in Links \cup {NoTheme} :
       /\ theme' = candidate
       /\ IF Rejected(candidate, themesCache)
          THEN /\ retries' = Min(retries + 1, MaxRetries)
               /\ UNCHANGED <<pc, themesCache, hist>>
          ELSE /\ themesCache' = themesCache \cup {candidate}
               /\ hist' = [hist EXCEPT !.returned = @ \cup {candidate},
                                       !.dupTheme = @ \/ candidate \in hist.returned]
               /\ pc' = "getStream"
               /\ UNCHANGED retries
  /\ UNCHANGED <<rounds, isSingleplayer, rolling, room, leaderboard, answerOpen, cmdOpen,
                 staleCmd, stopReason, pendingBump, matchWinner, err, highestScore,
                 harnessVars>>

\* The theme source fails: the error leaves startNewRound.
ThemeFails ==
  /\ pc = "getTheme"
  /\ Abort(hist, TRUE, "themeFailed")
  /\ UNCHANGED <<sessionVars, retries, highestScore, harnessVars>>

\* const stream = await getStreamFromURL(theme.link).catch(...)
GetStream ==
  /\ pc = "getStream"
  /\ \E ok \in BOOLEAN :
       IF ok THEN pc' = "setRolling" /\ UNCHANGED <<err, hist>>
       ELSE Abort(hist, TRUE, "streamFailed")
  /\ UNCHANGED <<sessionVars, retries, highestScore, harnessVars>>

\* guild.rolling = true; await guild.save()
SetRolling ==
  /\ pc = "setRolling"
  /\ rolling' = RollingOnRoundStart
  /\ pc' = "openCollectors"
  /\ UNCHANGED <<rounds, isSingleplayer, room, leaderboard, themesCache, theme,
                 answerOpen, cmdOpen, staleCmd, stopReason, pendingBump, matchWinner, err,
                 retries, highestScore, hist, harnessVars>>

\* The two MessageCollectors of the round, and playTheme.  A command collector that
\* a forced stop left open keeps listening beside the new one.
OpenCollectors ==
  /\ pc = "openCollectors"
  /\ answerOpen' = TRUE
  /\ cmdOpen' = TRUE
  /\ staleCmd' = (staleCmd \/ cmdOpen)
  /\ stopReason' = "none"
  /\ hist' = [hist EXCEPT !.revealed = FALSE, !.roomBefore = NoRoom]
  /\ pc' = "active"
  /\ UNCHANGED <<rounds, isSingleplayer, rolling, room, leaderboard, themesCache, theme,
                 pendingBump, matchWinner, err, retries, highestScore, harnessVars>>

\* answerCollector 'collect': GameCollectorUtils.handleCollect(t, room, msg), as the
\* specification's 4.1 describes it, records the author among the round's answerers
\* and bumps the author's ledger entry.
AnswerCollect(u) ==
  /\ answerOpen
  /\ leaderboard[u].score < MaxScore
  /\ room' = [room EXCEPT !.answerers = @ \cup {u}]
  /\ leaderboard' = LedgerBump(leaderboard, ThisGuild, u)
  /\ UNCHANGED <<pc, rounds, isSingleplayer, rolling, themesCache, theme, answerOpen,
                 cmdOpen, staleCmd, stopReason, pendingBump, matchWinner, err, retries,
                 highestScore, hist, harnessVars>>

\* The answerCollector ends (Collector.stop(reason), once): its 'end' handler runs
\* to its first await.  Forced: handleFinish(room, voiceChannelID, isSingleplayer,
\* true) leaves the voice channel at once, and clearData is next.
EndHandler(reason) ==
  /\ answerOpen' = FALSE
  /\ stopReason' = reason
  /\ IF IsForceFinished(reason)
     THEN /\ hist' = [hist EXCEPT !.finishes = Min(@ + 1, 2), !.outcome = "forced"]
          /\ pc' = "clear"
     ELSE /\ pc' = "reveal"
          /\ UNCHANGED hist

\* gameCommandCollector 'collect' of `${guild.prefix}stop`: handleStopCommand, as the
\* specification's 4.1 and 4.3 describe it, ends the answerCollector with the forced
\* reason and does nothing else; Collector.stop on a collector that has ended does
\* nothing.  The message reaches every command collector that listens, and only
\* the running round's holds an answer collector that can still end.
StopCommand ==
  /\ cmdOpen \/ staleCmd
  /\ IF cmdOpen /\ answerOpen
     THEN EndHandler(ForcedReason)
     ELSE /\ hist' = [hist EXCEPT !.stopNoop = TRUE]
          /\ UNCHANGED <<pc, answerOpen, stopReason>>
  /\ UNCHANGED <<rounds, isSingleplayer, rolling, room, leaderboard, themesCache, theme,
                 cmdOpen, staleCmd, pendingBump, matchWinner, err, retries, highestScore,
                 harnessVars>>

\* gameCommandCollector 'collect' of `${guild.prefix}hint`: a message, nothing else.
HintCommand ==
  /\ cmdOpen \/ staleCmd
  /\ UNCHANGED vars

\* The timers of the round's two collectors, set in the same turn for the same
\* time, run one after the other: the command collector ends, and the answer
\* collector, unless a stop ended it before, ends with 'time'.
RoundTimeout ==
  /\ cmdOpen
  /\ cmdOpen' = FALSE
  /\ IF answerOpen THEN EndHandler("time")
     ELSE UNCHANGED <<pc, answerOpen, stopReason, hist>>
  /\ UNCHANGED <<rounds, isSingleplayer, rolling, room, leaderboard, themesCache, theme,
                 staleCmd, pendingBump, matchWinner, err, retries, highestScore,
                 harnessVars>>

\* The timer of a command collector left over from a round that a stop resolved.
StaleTimeout ==
  /\ staleCmd
  /\ staleCmd' = FALSE
  /\ UNCHANGED <<pc, rounds, isSingleplayer, rolling, room, leaderboard, themesCache,
                 theme, answerOpen, cmdOpen, stopReason, pendingBump, matchWinner, err,
                 retries, highestScore, hist, harnessVars>>

\* 'end' by timeout: the answer embed, 'The answer is...', and the answerers.
Reveal ==
  /\ pc = "reveal"
  /\ hist' = [hist EXCEPT !.revealed = TRUE]
  /\ pc' = "resolve"
  /\ UNCHANGED <<sessionVars, err, retries, highestScore, harnessVars>>

\* 'end' by timeout, after the messages: a bumpScore (and handleLevel) task is
\* started for each answerer, none awaited, and the rounds decide what is next.
\* The tasks of an earlier round's resolution have run by the time a later round
\* resolves.
Resolve ==
  /\ pc = "resolve"
  /\ pendingBump \cap room.answerers = {}
  /\ pendingBump' = pendingBump \cup room.answerers
  /\ IF IsLastRound(room, rounds)
     THEN /\ pc' = "winnerFind"
          /\ hist' = [hist EXCEPT !.resolvedRound = room.currentRound,
                                  !.played = Min(@ + 1, MaxCurrentRound)]
     ELSE /\ pc' = "checkVoice"
          /\ hist' = [hist EXCEPT !.resolvedRound = room.currentRound,
                                  !.played = Min(@ + 1, MaxCurrentRound),
                                  !.continued = TRUE]
  /\ UNCHANGED <<rounds, isSingleplayer, rolling, room, leaderboard, themesCache, theme,
                 answerOpen, cmdOpen, staleCmd, stopReason, matchWinner, err, retries,
                 highestScore, harnessVars>>

\* A started bumpScore(userId) runs.
BumpScoreTask(u) ==
  /\ u \in pendingBump
  /\ leaderboard[u].score < MaxScore
  /\ pendingBump' = pendingBump \ {u}
  /\ leaderboard' = BumpScore(leaderboard, u)
  /\ hist' = [hist EXCEPT !.lateWrite = @ \/ (hist.clears > 0 /\ leaderboard' # leaderboard)]
  /\ UNCHANGED <<pc, rounds, isSingleplayer, rolling, room, themesCache, theme,
                 answerOpen, cmdOpen, staleCmd, stopReason, matchWinner, err, retries,
                 highestScore, harnessVars>>

\* getMatchWinner up to the single-player rule: the guild's scores are read.
WinnerFind ==
  /\ pc = "winnerFind"
  /\ highestScore' = HighestScore(Scores(leaderboard, ThisGuild))
  /\ hist' = [hist EXCEPT !.winnerRead = TRUE,
                          !.staleRead = @ \/ (pendingBump \cap room.answerers # {})]
  /\ IF NobodyWon(isSingleplayer, rounds, highestScore')
     THEN matchWinner' = NoWinner /\ pc' = "leave"
     ELSE UNCHANGED matchWinner /\ pc' = "winnerFindOne"
  /\ UNCHANGED <<rounds, isSingleplayer, rolling, room, leaderboard, themesCache, theme,
                 answerOpen, cmdOpen, staleCmd, stopReason, pendingBump, err, retries,
                 harnessVars>>

\* getMatchWinner's findOne by the highest score: any entry that matches, or null.
WinnerFindOne ==
  /\ pc = "winnerFindOne"
  /\ LET found == FindOneByScore(leaderboard, ThisGuild, highestScore)
     IN  IF found = {} THEN matchWinner' = NoWinner
         ELSE \E w \in found : matchWinner' = w
  /\ pc' = "leave"
  /\ UNCHANGED <<rounds, isSingleplayer, rolling, room, leaderboard, themesCache, theme,
                 answerOpen, cmdOpen, staleCmd, stopReason, pendingBump, err, retries,
                 highestScore, hist, harnessVars>>

\* handleFinish(..., false) after getMatchWinner: the congratulation, if somebody
\* won, and this.client.leaveVoiceChannel(voiceChannelID).
Leave ==
  /\ pc = "leave"
  /\ hist' = [hist EXCEPT !.finishes = Min(@ + 1, 2), !.outcome = "exhausted"]
  /\ pc' = "clear"
  /\ UNCHANGED <<sessionVars, err, retries, highestScore, harnessVars>>

\* clearData up to guild.save(): the guild's entries are deleted, the theme cache
\* is emptied and rolling = false is saved.
ClearBoards ==
  /\ pc = "clear"
  /\ leaderboard' = ClearedBoards(leaderboard, ThisGuild)
  /\ themesCache' = ClearedCache(themesCache)
  /\ rolling' = ClearedRolling(rolling)
  /\ hist' = [hist EXCEPT !.clears = Min(@ + 1, 2)]
  /\ pc' = "clearRoom"
  /\ UNCHANGED <<rounds, isSingleplayer, room, theme, answerOpen, cmdOpen, staleCmd,
                 stopReason, pendingBump, matchWinner, err, retries, highestScore,
                 harnessVars>>

\* clearData's room.deleteOne(), and the handler's end.
ClearRoom ==
  /\ pc = "clearRoom"
  /\ room' = NoRoom
  /\ pc' = (IF hist.outcome = "forced" THEN AfterForcedClear ELSE "idle")
  /\ UNCHANGED <<rounds, isSingleplayer, rolling, leaderboard, themesCache, theme,
                 answerOpen, cmdOpen, staleCmd, stopReason, pendingBump, matchWinner, err,
                 retries, highestScore, hist, harnessVars>>

Next ==
  \/ InitGame
  \/ CheckVoice
  \/ HandleRoomStep
  \/ ChooseTheme
  \/ ThemeFails
  \/ GetStream
  \/ SetRolling
  \/ OpenCollectors
  \/ \E u \in Users : AnswerCollect(u)
  \/ StopCommand
  \/ HintCommand
  \/ RoundTimeout
  \/ StaleTimeout
  \/ Reveal
  \/ Resolve
  \/ \E u \in Users : BumpScoreTask(u)
  \/ WinnerFind
  \/ WinnerFindOne
  \/ Leave
  \/ ClearBoards
  \/ ClearRoom

Spec == Init /\ [][Next]_vars

\* ------------------------------------------------------ session properties

\* The positions of startNewRound before the round's collectors are opened.
PreparingRound == {"checkVoice", "handleRoom", "getTheme", "getStream"}

\* The positions of the final handling: handleFinish and clearData.
Finishing == {"winnerFind", "winnerFindOne", "leave", "clear", "clearRoom"}

\* The terminal state of storage and of the theme cache after clearData.
SessionCleared ==
  /\ ~room.exists
  /\ ~rolling
  /\ GuildBoards(leaderboard, ThisGuild) = {}
  /\ themesCache = {}

C3_CleanupOnce ==
  /\ hist.clears <= 1
  /\ hist.finishes <= 1
  /\ (hist.outcome \in {"forced", "exhausted"} /\ pc = "idle") =>
       (hist.clears = 1 /\ hist.finishes = 1)
  /\ hist.clears = 1 => hist.finishes = 1

\* C3 witness: a stop was issued when the answer collector had already ended, and
\* the session is over with one cleanup.
C3_Witness ==
  /\ hist.stopNoop
  /\ hist.clears = 1
  /\ hist.finishes = 1
  /\ pc = "idle"

\* C4: when a round with currentRound >= rounds resolves by timeout the session
\* finishes (no round is prepared again, and at the end the room is deleted and
\* rolling is false); an 'end' handler starts a next round only while
\* currentRound < rounds, so a continued session never plays round rounds + 1.
C4_RoundProgression ==
  /\ hist.resolvedRound >= rounds => pc \in Finishing \cup {"idle"}
  /\ (hist.resolvedRound >= rounds /\ pc = "idle") => (~room.exists /\ ~rolling)
  /\ (hist.continued /\ pc \in {"checkVoice", "handleRoom"}) => room.currentRound < rounds
  /\ (hist.continued /\ room.exists) => room.currentRound <= rounds

\* C4 witness: a session of several rounds resolved its round number `rounds` by
\* timeout and is finished, the room deleted.
C4_Witness ==
  /\ rounds > 1
  /\ hist.continued
  /\ hist.resolvedRound = rounds
  /\ pc = "idle"
  /\ ~room.exists
  /\ ~rolling

\* C9: within a session, from the creation of the theme cache to its clearing, no
\* getTheme returns a link that an earlier getTheme of the session returned.
C9_NoRepeatedTheme ==
  /\ ~hist.dupTheme
  /\ hist.clears = 0 => hist.returned \subseteq themesCache

\* C9 witness: the second round's getTheme was offered a theme it had to reject,
\* and returned another link than the first round's.
C9_Witness ==
  /\ pc = "getStream"
  /\ retries > 0
  /\ Cardinality(hist.returned) = 2
  /\ theme \in hist.returned

\* The awaited theme source answers, and chooseTheme goes on with its answer.
FairSpec == Spec /\ WF_vars(ChooseTheme)

\* C10, as claimed: chooseTheme always terminates; whatever the theme source
\* returns, a getTheme that was started ends, by a theme or by a failure.
C10_ChooseThemeTerminates == (pc = "getTheme") ~> (pc # "getTheme")

\* The positions of startNewRound after handleRoom, up to the open collectors.
AfterHandleRoom == {"getTheme", "getStream", "setRolling", "openCollectors"}

\* C11, as claimed: when the stream of the chosen theme cannot be resolved the
\* round is aborted by an error handed to the caller, the round has not set
\* rolling, and the room is as the round start found it: none created, and the
\* currentRound and answerers of an existing one not modified.
C11_StreamFailureLeavesNothing ==
  (pc = "idle" /\ hist.outcome = "streamFailed") =>
    /\ err
    /\ rolling = hist.rollingBefore
    /\ room = hist.roomBefore

\* C12, as claimed: once a session has ended, by a failed round start (no voice
\* channel, channel type, theme, stream), by a forced stop or after its last
\* round, and its started tasks have run, rolling is false, no room is left and
\* the guild has no leaderboard entry.
C12_NoOrphansAfterAbort ==
  (pc = "idle" /\ hist.outcome # "none" /\ pendingBump = {}) =>
    /\ ~rolling
    /\ ~room.exists
    /\ GuildBoards(leaderboard, ThisGuild) = {}

\* C13, as claimed: rolling is a lock: a round start that finds rolling true goes
\* no further than its entry, so every round in preparation, and every round with
\* an open answer collector, was started while rolling was false.
C13_RollingIsLock ==
  /\ pc \in {"handleRoom"} \cup AfterHandleRoom => ~hist.rollingBefore
  /\ answerOpen => ~hist.rollingBefore

\* C14: a startNewRound that finds the requester in no voice channel ends with a
\* message (no error is thrown) and changes neither the room, nor a leaderboard
\* entry, nor rolling, and opens no collector.
C14_NoVoiceMutatesNothing ==
  [][(pc = "checkVoice" /\ pc' # "checkVoice" /\ ~hist'.inVoice) =>
       /\ pc' = "idle"
       /\ ~err'
       /\ hist'.outcome = "noVoice"
       /\ UNCHANGED <<room, leaderboard, rolling, answerOpen, cmdOpen, staleCmd>>]_vars

\* C14 witness: the start of a round after the first found the requester gone from
\* the voice channel: the handler is through, the room and rolling as they were.
C14_Witness ==
  /\ pc = "idle"
  /\ ~hist.inVoice
  /\ hist.outcome = "noVoice"
  /\ hist.continued
  /\ room = hist.roomBefore
  /\ room.exists
  /\ rolling

\* C15, as claimed: once the answer collector of a round has ended, by timeout or
\* by a stop, the round's command collector has ended too: no command collector
\* listens without its round's answer collector.
C15_CollectorsClosedAfterEnd ==
  /\ ~answerOpen => ~cmdOpen
  /\ ~staleCmd

\* C16, as claimed: when the last round resolves by timeout, getMatchWinner reads
\* the leaderboard after every bumpScore that the resolution started has saved its
\* score, and no bumpScore saves a score after clearData's deletes.
C16_WinnerAfterScoring ==
  /\ ~hist.staleRead
  /\ ~hist.lateWrite

\* C18: a round start creates a room, with currentRound 1 and no answerers, only
\* when the guild has none; else it advances the room it finds by exactly one round
\* and empties its answerers, so the round after a round resolved by timeout runs
\* on the same room, one round on.
C18_RoomReused ==
  pc \in AfterHandleRoom =>
    /\ room.exists
    /\ room.answerers = {}
    /\ room.currentRound = (IF hist.roomBefore.exists
                            THEN hist.roomBefore.currentRound + 1 ELSE 1)
    /\ hist.continued =>
         (hist.roomBefore.exists /\ room.currentRound = hist.resolvedRound + 1)

\* C18 witness: the second round of a session has answerers that the first round's
\* room had, the round number is 2, and a new round is prepared on the room again.
C18_Witness ==
  /\ pc = "getTheme"
  /\ hist.continued
  /\ hist.roomBefore.exists
  /\ hist.roomBefore.answerers # {}
  /\ hist.roomBefore.currentRound = 1
  /\ room = [currentRound |-> 2, answerers |-> {}, exists |-> TRUE]

\* ----------------------------------------------------- function harnesses

\* The variables no harness reads, as the session's Init leaves them.
HarnessRest ==
  /\ theme = NoTheme
  /\ answerOpen = FALSE
  /\ cmdOpen = FALSE
  /\ staleCmd = FALSE
  /\ stopReason = "none"
  /\ pendingBump = {}
  /\ matchWinner = NoWinner
  /\ err = FALSE
  /\ retries = 0
  /\ highestScore = 0
  /\ hist = NoHist

\* The leaderboards with scores up to n: every user has no entry, or one in either
\* guild.
Leaderboards(n) == [Users -> {NoEntry} \cup [guildId : Guilds, score : 0..n]]

\* getMatchWinner on any leaderboard, in either mode, for any number of rounds.
InitWinner ==
  /\ pc = "winnerFind"
  /\ rounds \in 1..MaxInputRounds
  /\ isSingleplayer \in BOOLEAN
  /\ leaderboard \in Leaderboards(MaxInputScore)
  /\ rolling = TRUE
  /\ room = CreateRoom
  /\ themesCache = {}
  /\ snap = 0
  /\ calls = 0
  /\ HarnessRest

NextWinner ==
  \/ WinnerFind
  \/ WinnerFindOne

SpecWinner == InitWinner /\ [][NextWinner]_vars

\* The highest score among the guild's entries.
MaxGuildScore == SetMax(Scores(leaderboard, ThisGuild))

C6_MultiplayerWinner ==
  (pc = "leave" /\ ~isSingleplayer) =>
    IF GuildBoards(leaderboard, ThisGuild) = {} THEN matchWinner = NoWinner
    ELSE /\ matchWinner \in GuildBoards(leaderboard, ThisGuild)
         /\ \A u \in GuildBoards(leaderboard, ThisGuild) :
              leaderboard[u].score <= leaderboard[matchWinner].score

\* C6 witness: entries with the scores 4 and 7, and the winner is the one with 7.
C6_Witness ==
  /\ pc = "leave"
  /\ ~isSingleplayer
  /\ leaderboard["u1"] = [guildId |-> ThisGuild, score |-> 4]
  /\ leaderboard["u2"] = [guildId |-> ThisGuild, score |-> 7]
  /\ matchWinner = "u2"

\* k successive bumpScore calls for a user, from any leaderboard.
InitBump ==
  /\ pc = "bump"
  /\ leaderboard \in Leaderboards(MaxScore)
  /\ snap = leaderboard
  /\ calls = [u \in Users |-> 0]
  /\ rounds = 1
  /\ isSingleplayer = FALSE
  /\ rolling = TRUE
  /\ room = CreateRoom
  /\ themesCache = {}
  /\ HarnessRest

\* await this.bumpScore(userId)
BumpScoreCall(u) ==
  /\ pc = "bump"
  /\ calls[u] < MaxBumps
  /\ leaderboard' = BumpScore(leaderboard, u)
  /\ calls' = [calls EXCEPT ![u] = @ + 1]
  /\ UNCHANGED <<pc, rounds, isSingleplayer, rolling, room, themesCache, theme,
                 answerOpen, cmdOpen, staleCmd, stopReason, pendingBump, matchWinner,
                 err, retries, highestScore, hist, snap>>

NextBump == \E u \in Users : BumpScoreCall(u)

SpecBump == InitBump /\ [][NextBump]_vars

\* C7, as claimed: from no entry, k >= 1 bumps leave an entry with score k.
C7_BumpUpserts ==
  \A u \in Users :
    (snap[u] = NoEntry /\ calls[u] >= 1) =>
      (leaderboard[u] # NoEntry /\ leaderboard[u].score = calls[u])

\* C7, amended: bumpScore updates and never creates: k bumps raise the score of an
\* existing entry by exactly k and leave its guild alone, and leave a user without
\* an entry without one.
C7_BumpUpdatesOnly ==
  \A u \in Users :
    IF snap[u] = NoEntry THEN leaderboard[u] = NoEntry
    ELSE leaderboard[u] = [snap[u] EXCEPT !.score = @ + calls[u]]

\* C7 witness: three bumps each for a user without an entry, who still has none,
\* and for a user with score 1, who has score 4.
C7_Witness ==
  /\ calls = [u \in Users |-> 3]
  /\ snap["u1"] = NoEntry
  /\ leaderboard["u1"] = NoEntry
  /\ snap["u2"] = [guildId |-> ThisGuild, score |-> 1]
  /\ leaderboard["u2"].score = 4

\* clearData twice in a row, from any state of storage and of the theme cache.
InitClear ==
  /\ pc = "clear"
  /\ rolling \in BOOLEAN
  /\ room \in {NoRoom} \cup [currentRound : 1..MaxCurrentRound, answerers : SUBSET Users,
                            exists : {TRUE}]
  /\ leaderboard \in Leaderboards(MaxScore)
  /\ themesCache \in SUBSET Links
  /\ rounds = 1
  /\ isSingleplayer = FALSE
  /\ snap = 0
  /\ calls = 1
  /\ HarnessRest

\* await this.clearData(room, guild), a second time.
ClearDataAgain ==
  /\ pc = "idle"
  /\ calls = 1
  /\ snap' = <<rolling, room, leaderboard, themesCache>>
  /\ calls' = 2
  /\ pc' = "clear"
  /\ UNCHANGED <<sessionVars, err, retries, highestScore, hist>>

NextClear ==
  \/ ClearBoards
  \/ ClearRoom
  \/ ClearDataAgain

SpecClear == InitClear /\ [][NextClear]_vars

\* C8: a second clearData right after the first raises no error and leaves rolling,
\* the room, the leaderboard and the theme cache as the first left them: rolling
\* false, no room, no entry of the guild, an empty cache.
C8_ClearDataIdempotent ==
  (pc = "idle" /\ calls = 2) =>
    /\ <<rolling, room, leaderboard, themesCache>> = snap
    /\ SessionCleared
    /\ ~err

\* C8 witness: the second clearData has run.
C8_Witness ==
  /\ pc = "idle"
  /\ calls = 2
  /\ hist.clears = 2
  /\ SessionCleared

AfterTaskFailure_AbortsBatch(pending, u) == {}

\* void this.bumpScore(id): each started task is a promise of its own, and the
\* rejection of one ends that task only.
AfterTaskFailure(pending, u) == pending \ {u}

\* The resolution of a round by timeout, from any room and leaderboard, with the
\* score and level tasks it starts, each of which may fail.
InitResolve ==
  /\ pc = "resolve"
  /\ rounds \in 1..MaxRounds
  /\ isSingleplayer = FALSE
  /\ rolling = TRUE
  /\ room \in [currentRound : 1..MaxRounds, answerers : SUBSET Users, exists : {TRUE}]
  /\ leaderboard \in Leaderboards(MaxScore - 1)
  /\ themesCache = {}
  /\ snap = [before |-> leaderboard, failed |-> {}]
  /\ calls = [u \in Users |-> "none"]
  /\ HarnessRest

\* A started bumpScore(userId) rejects: findById or save throws.
BumpScoreFails(u) ==
  /\ u \in pendingBump
  /\ pendingBump' = AfterTaskFailure(pendingBump, u)
  /\ snap' = [snap EXCEPT !.failed = @ \cup {u}]
  /\ UNCHANGED <<pc, rounds, isSingleplayer, rolling, room, leaderboard, themesCache,
                 theme, answerOpen, cmdOpen, staleCmd, stopReason, matchWinner, err,
                 retries, highestScore, hist, calls>>

\* A started handleLevel(userId) runs: the user's xp is saved, or the task rejects
\* (no User document, or the level handler or the save throws).
HandleLevelTask(u) ==
  /\ hist.played > 0
  /\ u \in room.answerers
  /\ calls[u] = "none"
  /\ \E ok \in BOOLEAN : calls' = [calls EXCEPT ![u] = IF ok THEN "saved" ELSE "failed"]
  /\ UNCHANGED <<pc, rounds, isSingleplayer, rolling, room, leaderboard, themesCache,
                 theme, answerOpen, cmdOpen, staleCmd, stopReason, pendingBump,
                 matchWinner, err, retries, highestScore, hist, snap>>

NextResolve ==
  \/ Resolve
  \/ \E u \in Users : BumpScoreTask(u)
  \/ \E u \in Users : BumpScoreFails(u)
  \/ \E u \in Users : HandleLevelTask(u)

SpecResolve == InitResolve /\ [][NextResolve]_vars

C19_OtherGuildUntouched ==
  \A u \in Users :
    (snap[u] # NoEntry /\ snap[u].guildId = OtherGuild) => leaderboard[u] = snap[u]

\* ------------------------------------------------------------- liveness

\* The score bound leaves room for the point of an answer of u and for the points
\* of the bumpScore tasks of u: no task has to wait at the bound.
RoomForPoints(u) ==
  leaderboard[u].score + 2 + (IF u \in pendingBump THEN 1 ELSE 0) <= MaxScore

\* The session when nobody stops it and every external call succeeds: the
\* requester stays in a voice channel, the theme source has a theme for every
\* round, and no theme, stream or storage call fails.
NextLive ==
  \/ InitGame /\ rounds' <= Cardinality(Links)
  \/ CheckVoice /\ pc' = "handleRoom"
  \/ HandleRoomStep
  \/ ChooseTheme
  \/ GetStream /\ pc' = "setRolling"
  \/ SetRolling
  \/ OpenCollectors
  \/ \E u \in Users : RoomForPoints(u) /\ AnswerCollect(u)
  \/ HintCommand
  \/ RoundTimeout
  \/ Reveal
  \/ Resolve
  \/ \E u \in Users : BumpScoreTask(u)
  \/ WinnerFind
  \/ WinnerFindOne
  \/ Leave
  \/ ClearBoards
  \/ ClearRoom

\* The steps of the running handler after an await that succeeds; at most one is
\* enabled at a time.
HandlerStep ==
  \/ CheckVoice /\ pc' = "handleRoom"
  \/ HandleRoomStep
  \/ ChooseTheme /\ pc' = "getStream"
  \/ GetStream /\ pc' = "setRolling"
  \/ SetRolling
  \/ OpenCollectors
  \/ Reveal
  \/ Resolve
  \/ WinnerFind
  \/ WinnerFindOne
  \/ Leave
  \/ ClearBoards
  \/ ClearRoom

\* Awaited calls return, the collectors' timers fire, started tasks run.
LiveSpec ==
  /\ Init
  /\ [][NextLive]_vars
  /\ WF_vars(HandlerStep)
  /\ WF_vars(RoundTimeout)
  /\ \A u \in Users : WF_vars(BumpScoreTask(u))

\* C20: a session that initGame starts with `rounds` rounds, that nobody stops and
\* whose external calls all succeed, comes to its end after exactly `rounds`
\* rounds resolved by timeout, with the room and the guild's leaderboard entries
\* deleted and rolling false.
C20_SessionFinishes ==
  (pc = "checkVoice" /\ hist.played = 0) ~>
    (pc = "idle" /\ hist.outcome = "exhausted" /\ hist.played = rounds /\ SessionCleared)

\* C20 witness: a session of two rounds has played two rounds and is cleared.
C20_Witness ==
  /\ pc = "idle"
  /\ hist.outcome = "exhausted"
  /\ rounds = 2
  /\ hist.played = 2
  /\ hist.resolvedRound = 2
  /\ SessionCleared

====
